---- MODULE Spec2Model ----
(***************************************************************************)
(* Model of the clipboard-monitor / streaming-worker pipeline of           *)
(* src/translator.py: TransparentAIAssistant (the coordinator, running on  *)
(* the GUI thread) and OpenAIWorker (one QThread per streaming session).   *)
(*                                                                         *)
(* Texts are sequences of one-character strings, so that str.strip() and   *)
(* string concatenation are computed rather than assumed.                  *)
(*                                                                         *)
(* A worker's signals are connected to slots of the main window, which     *)
(* lives in the GUI thread: every emit() from the worker thread posts an   *)
(* event to the GUI thread's event queue (variable queue), delivered later *)
(* in FIFO order by the event loop.  QThread.terminate() kills the thread; *)
(* it neither emits a signal nor removes events already posted.            *)
(***************************************************************************)
EXTENDS Integers, Sequences, FiniteSets, TLC

\* ---------------------------------------------------------------- bounds
MaxSessions == 2          \* workers created in one run
MaxChunks == 2            \* chunks with content the backend streams to one worker

\* A run is either up to MaxSessions sessions of at most one chunk each, or one
\* session of up to MaxChunks chunks.
Shapes == {[sessions |-> MaxSessions, chunks |-> 1],
           [sessions |-> 1, chunks |-> MaxChunks]}

Sids == 1..MaxSessions
ListIds == 1..(MaxSessions + 1)

\* ----------------------------------------------------------------- texts
Whitespace == {" "}

RECURSIVE LStrip(_)
LStrip(s) == IF s # <<>> /\ Head(s) \in Whitespace THEN LStrip(Tail(s)) ELSE s

RECURSIVE RStrip(_)
RStrip(s) ==
  IF s # <<>> /\ s[Len(s)] \in Whitespace
  THEN RStrip(SubSeq(s, 1, Len(s) - 1))
  ELSE s

\* str.strip()
Strip(s) == RStrip(LStrip(s))

IsBlankUntrimmed(s) == s = <<>>

\* `not message.strip()`
IsBlank(s) == Strip(s) = <<>>

\* contents the external text source can hold
ClipboardTexts == {<<" ">>, <<"A">>, <<"B">>}

\* content of the k-th chunk of a response stream, when it has content
Letters == <<"a", "b", "c", "d">>
ChunkText(k) == <<Letters[k]>>

\* str(e) of the exception a worker catches
ErrorText == <<"E">>

SystemPrompt == <<"S">>

\* the text widget's initial content, and the prefix display_error puts
Greeting == <<"G">>
ErrorPrefix == <<"!">>

\* ------------------------------------------- custom parameters and their text
\* The characters the custom-parameter texts are written with.  json.loads and
\* str are modelled for texts over these: no backslash, no bracket or brace,
\* no capital letter (so no escape, no array or object, no NaN or Infinity).
Digits == <<"0", "1", "2", "3", "4", "5", "6", "7", "8", "9">>

IsDigit(c) == \E i \in 1..10 : Digits[i] = c

DigitValue(c) == (CHOOSE i \in 1..10 : Digits[i] = c) - 1

AllDigits(s) == s # <<>> /\ \A i \in 1..Len(s) : IsDigit(s[i])

\* int() of a digit string
RECURSIVE ToNat(_)
ToNat(ds) ==
  IF ds = <<>> THEN 0
  ELSE 10 * ToNat(SubSeq(ds, 1, Len(ds) - 1)) + DigitValue(ds[Len(ds)])

\* the decimal digits of a natural number
RECURSIVE NatText(_)
NatText(n) ==
  IF n < 10 THEN <<Digits[n + 1]>>
  ELSE NatText(n \div 10) \o <<Digits[(n % 10) + 1]>>

RECURSIVE Zeros(_)
Zeros(n) == IF n <= 0 THEN <<>> ELSE <<"0">> \o Zeros(n - 1)

\* the first position of one of the characters cs in s, 0 when there is none
IndexOf(s, cs) ==
  IF \E i \in 1..Len(s) : s[i] \in cs
  THEN CHOOSE i \in 1..Len(s) : s[i] \in cs /\ \A j \in 1..(i - 1) : s[j] \notin cs
  ELSE 0

\* a Python value of a custom parameter: int (n), float (neg, n, e: the number
\* n * 10^e, n without trailing zeros), bool (n is 1 or 0), None, str (s)
PyValue(t, neg, n, e, s) == [t |-> t, neg |-> neg, n |-> n, e |-> e, s |-> s]

PyInt(n) == PyValue("int", FALSE, n, 0, <<>>)

RECURSIVE PyFloat(_, _, _)
PyFloat(neg, n, e) ==
  IF n = 0 THEN PyValue("float", neg, 0, 0, <<>>)
  ELSE IF n % 10 = 0 THEN PyFloat(neg, n \div 10, e + 1)
  ELSE PyValue("float", neg, n, e, <<>>)

PyBool(b) == PyValue("bool", FALSE, IF b THEN 1 ELSE 0, 0, <<>>)

PyNone == PyValue("None", FALSE, 0, 0, <<>>)

PyString(s) == PyValue("str", FALSE, 0, 0, s)

JsonFailed == [ok |-> FALSE, value |-> PyNone]

JsonOk(v) == [ok |-> TRUE, value |-> v]

\* json.loads(s), line 198: the value, or the exception it raises (ok = FALSE)
JsonLoads(text) ==
  LET s == Strip(text)
      neg == s # <<>> /\ s[1] = "-"
      body == IF neg THEN Tail(s) ELSE s
      ePos == IndexOf(body, {"e", "E"})
      mant == IF ePos = 0 THEN body ELSE SubSeq(body, 1, ePos - 1)
      expo == IF ePos = 0 THEN <<>> ELSE SubSeq(body, ePos + 1, Len(body))
      dot == IndexOf(mant, {"."})
      int == IF dot = 0 THEN mant ELSE SubSeq(mant, 1, dot - 1)
      frac == IF dot = 0 THEN <<>> ELSE SubSeq(mant, dot + 1, Len(mant))
      expNeg == expo # <<>> /\ expo[1] = "-"
      expDigits == IF expo # <<>> /\ expo[1] \in {"-", "+"} THEN Tail(expo) ELSE expo
      isNumber == /\ AllDigits(int)
                  /\ (Len(int) = 1 \/ int[1] # "0")
                  /\ (dot = 0 \/ AllDigits(frac))
                  /\ (ePos = 0 \/ AllDigits(expDigits))
      isString == /\ Len(s) >= 2
                  /\ s[1] = "\"" /\ s[Len(s)] = "\""
                  /\ \A i \in 2..(Len(s) - 1) : s[i] \notin {"\"", "\n"}
  IN CASE s = <<"t", "r", "u", "e">> -> JsonOk(PyBool(TRUE))
       [] s = <<"f", "a", "l", "s", "e">> -> JsonOk(PyBool(FALSE))
       [] s = <<"n", "u", "l", "l">> -> JsonOk(PyNone)
       [] isString -> JsonOk(PyString(SubSeq(s, 2, Len(s) - 1)))
       [] isNumber /\ dot = 0 /\ ePos = 0 ->
            JsonOk(PyInt(IF neg THEN 0 - ToNat(int) ELSE ToNat(int)))
       [] isNumber /\ (dot # 0 \/ ePos # 0) ->
            JsonOk(PyFloat(neg, ToNat(int \o frac),
                           (IF ePos = 0 THEN 0
                            ELSE IF expNeg THEN 0 - ToNat(expDigits)
                            ELSE ToNat(expDigits)) - Len(frac)))
       [] OTHER -> JsonFailed

\* repr of a float whose shortest decimal digits are those of n (up to 15
\* digits): fixed notation for exponents from -4 to 15, else scientific
FloatText(neg, n, e) ==
  LET digits == NatText(n)
      k == Len(digits)
      x == k - 1 + e
      fixed == IF e >= 0 THEN digits \o Zeros(e) \o <<".", "0">>
               ELSE IF k + e > 0
                    THEN SubSeq(digits, 1, k + e) \o <<".">> \o SubSeq(digits, k + e + 1, k)
                    ELSE <<"0", ".">> \o Zeros(0 - (k + e)) \o digits
      ax == IF x < 0 THEN 0 - x ELSE x
      scientific == <<digits[1]>>
                    \o (IF k > 1 THEN <<".">> \o SubSeq(digits, 2, k) ELSE <<>>)
                    \o <<"e", IF x < 0 THEN "-" ELSE "+">>
                    \o (IF ax < 10 THEN <<"0">> ELSE <<>>) \o NatText(ax)
  IN (IF neg THEN <<"-">> ELSE <<>>)
       \o (IF n = 0 THEN <<"0", ".", "0">>
           ELSE IF x >= 0 - 4 /\ x < 16 THEN fixed ELSE scientific)

\* str(v), as the f-string of line 159 formats a value
PyStr(v) ==
  CASE v.t = "int" ->
         (IF v.n < 0 THEN <<"-">> \o NatText(0 - v.n) ELSE NatText(v.n))
    [] v.t = "float" -> FloatText(v.neg, v.n, v.e)
    [] v.t = "bool" ->
         (IF v.n = 1 THEN <<"T", "r", "u", "e">> ELSE <<"F", "a", "l", "s", "e">>)
    [] v.t = "None" -> <<"N", "o", "n", "e">>
    [] v.t = "str" -> v.s

\* a dict, in insertion order: d[key] = value
DictSet(d, key, value) ==
  IF \E i \in 1..Len(d) : d[i].k = key
  THEN [i \in 1..Len(d) |-> IF d[i].k = key THEN [k |-> key, v |-> value] ELSE d[i]]
  ELSE Append(d, [k |-> key, v |-> value])

\* str.splitlines() of a text whose line boundaries are "\n"
RECURSIVE SplitLines(_)
SplitLines(text) ==
  IF text = <<>> THEN <<>>
  ELSE LET i == IndexOf(text, {"\n"})
       IN IF i = 0 THEN <<text>>
          ELSE <<SubSeq(text, 1, i - 1)>> \o SplitLines(SubSeq(text, i + 1, Len(text)))

\* "\n".join(lines)
RECURSIVE JoinLines(_)
JoinLines(lines) ==
  IF lines = <<>> THEN <<>>
  ELSE IF Len(lines) = 1 THEN lines[1]
  ELSE lines[1] \o <<"\n">> \o JoinLines(Tail(lines))

\* ModelDialog.__init__, line 159: the text shown for the custom parameters
FormatCustomParams(d) ==
  JoinLines([i \in 1..Len(d) |-> <<"-", " ">> \o d[i].k \o <<":", " ">> \o PyStr(d[i].v)])

\* save_settings, lines 193-201: one line of the text.  A line that does not
\* start with "-", has no ":" (the unpacking of line 196 raises) or whose value
\* json.loads rejects leaves the dict as it is.
ParseLine(custom_params, rawLine) ==
  LET line == Strip(rawLine)
      rest == IF line = <<>> THEN <<>> ELSE Tail(line)
      colon == IndexOf(rest, {":"})
      key == Strip(SubSeq(rest, 1, colon - 1))
      value == JsonLoads(Strip(SubSeq(rest, colon + 1, Len(rest))))
  IN IF line = <<>> \/ line[1] # "-" THEN custom_params
     ELSE IF colon = 0 THEN custom_params
     ELSE IF ~value.ok THEN custom_params
     ELSE DictSet(custom_params, key, value.value)

RECURSIVE ParseLinesAborting(_, _)
ParseLinesAborting(custom_params, lines) ==
  IF lines = <<>> THEN custom_params
  ELSE IF Strip(Head(lines)) # <<>> /\ Strip(Head(lines))[1] = "-"
          /\ ParseLine(<<>>, Head(lines)) = <<>>
       THEN custom_params
       ELSE ParseLinesAborting(ParseLine(custom_params, Head(lines)), Tail(lines))

\* save_settings, lines 192-201: the loop over the lines
RECURSIVE ParseLines(_, _)
ParseLines(custom_params, lines) ==
  IF lines = <<>> THEN custom_params
  ELSE ParseLines(ParseLine(custom_params, Head(lines)), Tail(lines))

\* save_settings, lines 190-202: the dict parsed from the text of the dialog
ParseCustomParams(text) == ParseLines(<<>>, SplitLines(text))

\* ---------------------------------------------------------- model settings
\* the keys of the generation parameters, as plain strings (nothing reads
\* their characters); a dict of them is a record
KeyTemperature == "temperature"
KeyMaxTokens == "max_tokens"
KeyPresencePenalty == "presence_penalty"
KeyFrequencyPenalty == "frequency_penalty"
KeyTopP == "top_p"

\* the dict literal of lines 181-187 and 341-347
GenerationParams(temperature, max_tokens, presence_penalty, frequency_penalty, top_p) ==
  [temperature |-> temperature, max_tokens |-> max_tokens,
   presence_penalty |-> presence_penalty, frequency_penalty |-> frequency_penalty,
   top_p |-> top_p]

\* dict.get(key, default)
DictGet(d, key, default) == IF key \in DOMAIN d THEN d[key] ELSE default

\* the fields of the model dialog other than the custom parameters: what
\* __init__ sets at startup, and what a user types instead.  The value of a
\* QDoubleSpinBox (two decimals) is given in hundredths.
DefaultFields ==
  [api_address_input |-> "http://127.0.0.1/v1", api_key_input |-> "-",
   model_name_input |-> "default", system_prompt_input |-> SystemPrompt,
   temperature_input |-> 50, max_tokens_input |-> 300,
   presence_penalty_input |-> 0, frequency_penalty_input |-> 0,
   top_p_input |-> 100]

TypedFields ==
  [api_address_input |-> "http://127.0.0.1:5001/v1", api_key_input |-> "sk",
   model_name_input |-> "other", system_prompt_input |-> <<"T">>,
   temperature_input |-> 100, max_tokens_input |-> 100,
   presence_penalty_input |-> 10, frequency_penalty_input |-> 0,
   top_p_input |-> 90]

FieldChoices == {DefaultFields, TypedFields}

\* texts a user types into the custom parameters field
TextBareEntries ==
  <<"n", "o", "t", "-", "a", "-", "v", "a", "l", "i", "d", "-", "l", "i",
    "n", "e", "\n", "t", "o", "p", "_", "k", ":", " ", "2", "0">>

TextDashEntries ==
  <<"-", " ", "n", "o", "t", "-", "a", "-", "v", "a", "l", "i", "d", "-",
    "l", "i", "n", "e", "\n", "-", " ", "t", "o", "p", "_", "k", ":", " ",
    "2", "0">>

TextPlaceholder ==
  <<"-", " ", "t", "o", "p", "_", "k", ":", " ", "2", "0", "\n", "-", " ",
    "m", "i", "n", "_", "p", ":", " ", "0", ".", "1">>

TextBadValue ==
  <<"-", " ", "a", ":", " ", "t", "r", "u", "\n", "-", " ", "b", ":", " ",
    "t", "r", "u", "e">>

CustomTexts == {<<>>, TextBareEntries, TextDashEntries, TextPlaceholder, TextBadValue}

\* dict objects: the two self refers to and the two a worker that has not yet
\* sent its request refers to
DictIds == 1..4

\* no dialog is open; an open one has its fields and custom_params_input
NoDialog == [open |-> FALSE]

\* the attributes OpenAIWorker.__init__ stores, lines 25-31, other than
\* messages; NoConfig and NoRequest are those of no worker
Config(endpoint, api_key, system_prompt, model_name, generation_params, custom_params) ==
  [endpoint |-> endpoint, api_key |-> api_key, system_prompt |-> system_prompt,
   model_name |-> model_name, generation_params |-> generation_params,
   custom_params |-> custom_params]

NoConfig == Config("", "", <<>>, "", 0, 0)

\* a configuration with the contents of its two dicts in place of the references
ConfigValues(c, ds) ==
  Config(c.endpoint, c.api_key, c.system_prompt, c.model_name,
         ds[c.generation_params], ds[c.custom_params])

\* the arguments of OpenAI(...) and of create(...), lines 35-48
Request(base_url, api_key, model, system, kwargs, extra_body) ==
  [base_url |-> base_url, api_key |-> api_key, model |-> model, system |-> system,
   kwargs |-> kwargs, extra_body |-> extra_body]

NoRequest == Request("", "", "", <<>>, <<>>, <<>>)

\* --------------------------------------------------------------- messages
\* turn is ghost: the session the message belongs to (0 for the system message)
SystemMessageWith(prompt) == [role |-> "system", content |-> prompt, turn |-> 0]

SystemMessage == SystemMessageWith(SystemPrompt)

UserMessageEmpty(text, s) == [role |-> "user", content |-> <<>>, turn |-> s]

UserMessage(text, s) == [role |-> "user", content |-> text, turn |-> s]

AssistantMessageWrongRole(text, s) == [role |-> "user", content |-> text, turn |-> s]

AssistantMessage(text, s) == [role |-> "assistant", content |-> text, turn |-> s]

VARIABLES
  clipboard,           \* the external text source, as of the last read of it
  previous_clipboard,  \* self.previous_clipboard
  messages,            \* self.messages: a reference (list id) into heap
  heap,                \* the list objects: list id -> sequence of messages
  current_worker,      \* self.current_worker: 0 (None) or a session id
  workers,             \* the OpenAIWorker objects, by session id
  queue,               \* GUI thread's posted signal events, FIFO
  response_area,       \* the text widget's content
  mainpc,              \* GUI thread: "loop", or "hnm" inside handle_new_message
  log,                 \* ghost: turn events handled since startup / last clear
  lastRead,            \* ghost: the value the last source read produced
  shape,               \* ghost: the bounds of this run, one of Shapes
  settings,            \* self.endpoint .. self.custom_params; the dicts by id
  dicts,               \* the dict objects in use: dict id -> its entries
  dialog,              \* the ModelDialog, when open, and its input fields
  worker_config,       \* the workers' configuration attributes, by session id
  config_at_start,     \* ghost: the settings' values when a worker under way was created
  request              \* ghost: the arguments of the request a streaming worker sent

vars == <<clipboard, previous_clipboard, messages, heap, current_worker,
          workers, queue, response_area, mainpc, log, lastRead, shape,
          settings, dicts, dialog, worker_config, config_at_start, request>>

ModelVars == <<settings, dicts, dialog, worker_config, config_at_start, request>>

\* ------------------------------------------------------------ worker state
\* pc: "none" (not created), "start" (started, before line 40), "stream"
\* (request sent, reading the stream), "exit" (terminal signal emitted, run()
\* returning), "finished", "killed".  messages: the list the worker references.
\* all_messages, acc: run()'s locals, gone when run() is left; after line 58 acc
\* is kept as ghost, the text emitted with finished.  term: the terminal signal
\* emitted.  atStart is ghost: the list's value when the worker was created.
Worker(pc, m, atStart, all, acc, term) ==
  [pc |-> pc, messages |-> m, atStart |-> atStart, all_messages |-> all,
   acc |-> acc, term |-> term]

NoWorker == Worker("none", 0, <<>>, <<>>, <<>>, "none")

\* a worker whose run() has been left
Left(pc, term) == Worker(pc, 0, <<>>, <<>>, <<>>, term)

\* a worker whose thread terminate() has killed
Terminated(w) ==
  Worker("killed", 0, <<>>, <<>>, IF w.term = "finished" THEN w.acc ELSE <<>>, w.term)

\* QThread.isRunning(): from start() until run() has returned or the thread
\* has been terminated
IsRunning(w) == w.pc \in {"start", "stream", "exit"}

Started == {s \in Sids : workers[s].pc # "none"}
nextSid == Cardinality(Started) + 1

History == heap[messages]

\* lists some live reference can still reach
Referenced(m, ws) ==
  {m} \cup {ws[s].messages : s \in {t \in Sids : ws[t].pc = "start"}}

Collect(h, m, ws) ==
  LET used == Referenced(m, ws)
  IN [i \in ListIds |-> IF i \in used THEN h[i] ELSE <<>>]

\* `[]`: a fresh list object
FreshList(ws) ==
  LET free == ListIds \ {ws[s].messages : s \in {t \in Sids : ws[t].pc = "start"}}
  IN CHOOSE i \in free : \A j \in free : i <= j

\* pyperclip.paste() inside try/except: the source holds text; a failed read
\* is replaced by ""
Paste(text, failed) == IF failed THEN <<>> ELSE text

\* an entry of the ghost log
Op(name, s, t) == [op |-> name, sid |-> s, text |-> t]

\* worker_config, config_at_start and request map the session ids of some
\* workers, dicts the ids of the dicts in use; f with s mapped to v:
Put(f, s, v) == [x \in DOMAIN f \cup {s} |-> IF x = s THEN v ELSE f[x]]

\* f for the workers whose pc is one of pcs
Keep(f, ws, pcs) == [s \in {x \in DOMAIN f : ws[x].pc \in pcs} |-> f[s]]

\* a worker keeps its configuration until it has sent its request
LiveConfigs(wc, ws) == Keep(wc, ws, {"start"})

\* the ghosts of a worker are kept while its run() is under way
LiveStarts(cs, ws) == Keep(cs, ws, {"start", "stream"})

LiveRequests(rq, ws) == Keep(rq, ws, {"stream"})

\* dicts some live reference can still reach
ReferencedDicts(st, wc) ==
  ({st.generation_params, st.custom_params}
     \cup {wc[s].generation_params : s \in DOMAIN wc}
     \cup {wc[s].custom_params : s \in DOMAIN wc}) \ {0}

CollectDicts(ds, st, wc) == [i \in ReferencedDicts(st, wc) |-> ds[i]]

\* `{...}`: a new dict object, none of those in use
FreshDict(used) ==
  CHOOSE i \in DictIds \ used : \A j \in DictIds \ used : i <= j

\* --------------------------------------------------------------------- Init
Init ==
  /\ clipboard \in ClipboardTexts
  /\ \E failed \in BOOLEAN :
       /\ previous_clipboard = Paste(clipboard, failed)
       /\ lastRead = previous_clipboard
  /\ messages = 1
  /\ heap = [i \in ListIds |-> <<>>]
  /\ current_worker = 0
  /\ workers = [s \in Sids |-> NoWorker]
  /\ queue = <<>>
  /\ response_area = Greeting
  /\ mainpc = "loop"
  /\ log = <<>>
  /\ shape \in Shapes
  /\ settings = Config(DefaultFields.api_address_input, DefaultFields.api_key_input,
                       DefaultFields.system_prompt_input, DefaultFields.model_name_input,
                       1, 2)
  /\ dicts = [i \in {1, 2} |->
               IF i = 1
               THEN GenerationParams(DefaultFields.temperature_input,
                                     DefaultFields.max_tokens_input,
                                     DefaultFields.presence_penalty_input,
                                     DefaultFields.frequency_penalty_input,
                                     DefaultFields.top_p_input)
               ELSE <<>>]
  /\ dialog = NoDialog
  /\ worker_config = [s \in {} |-> NoConfig]
  /\ config_at_start = [s \in {} |-> NoConfig]
  /\ request = [s \in {} |-> NoRequest]

\* ------------------------------------------------------ GUI thread handlers
TerminateSignalsError(ws, cw) ==
  IF cw # 0 /\ IsRunning(ws[cw])
  THEN <<[kind |-> "error", sid |-> cw, text |-> <<"E">>]>>
  ELSE <<>>

\* the events terminate() and wait() post for the worker they stop, lines
\* 557-559 and 637-638: none; the thread is killed, run()'s except clause is
\* not entered
TerminateSignals(ws, cw) == <<>>

StopRunningWorkerSkipped(ws, cw) == ws

\* handle_new_message, lines 556-559: terminate() and wait() a running worker
StopRunningWorker(ws, cw) ==
  IF cw # 0 /\ IsRunning(ws[cw])
  THEN [ws EXCEPT ![cw] = Terminated(ws[cw])]
  ELSE ws

TerminateForClearSkipped(ws, cw) == ws

\* clear_history, lines 636-638: the same, before the reference is reset
TerminateForClear(ws, cw) ==
  IF cw # 0 /\ IsRunning(ws[cw])
  THEN [ws EXCEPT ![cw] = Terminated(ws[cw])]
  ELSE ws

\* handle_new_message, lines 544-554: up to the clearing of the text widget.
\* The rest of the handler is StartWorker; the worker thread runs on between.
HandleNewMessage(message) ==
  IF IsBlank(message)
  THEN UNCHANGED <<messages, heap, response_area, mainpc, log>>
  ELSE /\ nextSid <= shape.sessions
       /\ LET m == IF heap[messages] = <<>> THEN FreshList(workers) ELSE messages
              old == IF heap[messages] = <<>> THEN <<>> ELSE heap[messages]
          IN /\ messages' = m
             /\ heap' = Collect([heap EXCEPT ![m] = Append(old, UserMessage(message, nextSid))],
                                m, workers)
       /\ response_area' = <<>>
       /\ mainpc' = "hnm"
       /\ log' = Append(log, Op("chg", nextSid, message))

NextSnapshotStale(previous, current) == previous

\* check_clipboard, line 541: the snapshot after a read that differs from it
NextSnapshot(previous, current) == current

\* check_clipboard: one tick of the poll timer; a failed read gives ""
CheckClipboard ==
  /\ mainpc = "loop"
  /\ \E text \in ClipboardTexts, failed \in BOOLEAN :
       LET current_clipboard == Paste(text, failed)
       IN /\ clipboard' = text
          /\ lastRead' = current_clipboard
          /\ IF current_clipboard # previous_clipboard
             THEN /\ previous_clipboard' = NextSnapshot(previous_clipboard, current_clipboard)
                  /\ HandleNewMessage(current_clipboard)
             ELSE UNCHANGED <<previous_clipboard, messages, heap, response_area,
                             mainpc, log>>
  /\ UNCHANGED <<current_worker, workers, queue, shape>>
  /\ UNCHANGED ModelVars

\* handle_new_message, lines 556-574: stop the old worker, create and start
\* the new one with a reference to self.messages
StartWorker ==
  /\ mainpc = "hnm"
  /\ LET s == nextSid
         ws == StopRunningWorker(workers, current_worker)
     IN /\ workers' = [ws EXCEPT ![s] =
                         Worker("start", messages, heap[messages], <<>>, <<>>, "none")]
        /\ current_worker' = s
        /\ heap' = Collect(heap, messages, workers')
        /\ worker_config' = LiveConfigs(Put(worker_config, s, settings), workers')
        /\ config_at_start' =
             LiveStarts(Put(config_at_start, s, ConfigValues(settings, dicts)), workers')
        /\ request' = LiveRequests(request, workers')
        /\ dicts' = CollectDicts(dicts, settings, worker_config')
  /\ queue' = queue \o TerminateSignals(workers, current_worker)
  /\ mainpc' = "loop"
  /\ UNCHANGED <<clipboard, previous_clipboard, messages, response_area,
                 log, lastRead, shape, settings, dialog>>

\* clear_history, the slot of a button of the main window: not while the
\* modal dialog is open
ClearHistory ==
  /\ mainpc = "loop"
  /\ ~dialog.open
  /\ UNCHANGED <<mainpc, shape, settings, dialog>>
  /\ response_area' = <<>>
  /\ log' = <<>>
  /\ queue' = queue \o TerminateSignals(workers, current_worker)
  /\ LET running == current_worker # 0 /\ IsRunning(workers[current_worker])
         ws == TerminateForClear(workers, current_worker)
         m == FreshList(ws)
     IN /\ current_worker' = (IF running THEN 0 ELSE current_worker)
        /\ workers' = ws
        /\ messages' = m
        /\ heap' = Collect([heap EXCEPT ![m] = <<>>], m, ws)
        /\ worker_config' = LiveConfigs(worker_config, ws)
        /\ config_at_start' = LiveStarts(config_at_start, ws)
        /\ request' = LiveRequests(request, ws)
        /\ dicts' = CollectDicts(dicts, settings, worker_config')
  /\ \E text \in ClipboardTexts, failed \in BOOLEAN :
       /\ clipboard' = text
       /\ previous_clipboard' = Paste(text, failed)
       /\ lastRead' = previous_clipboard'

\* append_token: slot of token_received
AppendToken ==
  /\ mainpc = "loop"
  /\ queue # <<>>
  /\ Head(queue).kind = "token"
  /\ response_area' = response_area \o Head(queue).text
  /\ queue' = Tail(queue)
  /\ UNCHANGED <<clipboard, previous_clipboard, messages, heap, current_worker,
                 workers, mainpc, log, lastRead, shape>>
  /\ UNCHANGED ModelVars

\* finish_response: slot of finished
FinishResponse ==
  /\ mainpc = "loop"
  /\ queue # <<>>
  /\ Head(queue).kind = "finished"
  /\ heap' = [heap EXCEPT ![messages] =
                Append(@, AssistantMessage(Head(queue).text, Head(queue).sid))]
  /\ queue' = Tail(queue)
  /\ log' = Append(log, Op("fin", Head(queue).sid, Head(queue).text))
  /\ UNCHANGED <<clipboard, previous_clipboard, messages, current_worker,
                 workers, response_area, mainpc, lastRead, shape>>
  /\ UNCHANGED ModelVars

\* display_error: slot of error
DisplayError ==
  /\ mainpc = "loop"
  /\ queue # <<>>
  /\ Head(queue).kind = "error"
  /\ response_area' = ErrorPrefix \o Head(queue).text
  /\ queue' = Tail(queue)
  /\ log' = Append(log, Op("err", Head(queue).sid, Head(queue).text))
  /\ UNCHANGED <<clipboard, previous_clipboard, messages, heap, current_worker,
                 workers, mainpc, lastRead, shape>>
  /\ UNCHANGED ModelVars

\* show_model_dialog, ModelDialog.__init__: the fields show the settings; a
\* spin box shows the value it is given (the values here are within its range)
ShowModelDialog ==
  /\ mainpc = "loop"
  /\ ~dialog.open
  /\ LET generation_params == dicts[settings.generation_params]
     IN dialog' =
          [open |-> TRUE,
           fields |->
             [api_address_input |-> settings.endpoint,
              api_key_input |-> settings.api_key,
              model_name_input |-> settings.model_name,
              system_prompt_input |-> settings.system_prompt,
              temperature_input |-> DictGet(generation_params, KeyTemperature, 100),
              max_tokens_input |-> DictGet(generation_params, KeyMaxTokens, 300),
              presence_penalty_input |->
                DictGet(generation_params, KeyPresencePenalty, 0),
              frequency_penalty_input |->
                DictGet(generation_params, KeyFrequencyPenalty, 0),
              top_p_input |-> DictGet(generation_params, KeyTopP, 100)],
           custom_params_input |-> FormatCustomParams(dicts[settings.custom_params])]
  /\ UNCHANGED <<clipboard, previous_clipboard, messages, heap, current_worker,
                 workers, queue, response_area, mainpc, log, lastRead, shape,
                 settings, dicts, worker_config, config_at_start, request>>

\* the user edits the open dialog: the custom parameters text, the other
\* fields, or both
EditModelDialog ==
  /\ mainpc = "loop"
  /\ dialog.open
  /\ \E fields \in FieldChoices \cup {dialog.fields},
        text \in CustomTexts \cup {dialog.custom_params_input} :
       /\ <<fields, text>> # <<dialog.fields, dialog.custom_params_input>>
       /\ dialog' = [open |-> TRUE, fields |-> fields, custom_params_input |-> text]
  /\ UNCHANGED <<clipboard, previous_clipboard, messages, heap, current_worker,
                 workers, queue, response_area, mainpc, log, lastRead, shape,
                 settings, dicts, worker_config, config_at_start, request>>

\* the dialog is closed without saving
CloseModelDialog ==
  /\ mainpc = "loop"
  /\ dialog.open
  /\ dialog' = NoDialog
  /\ UNCHANGED <<clipboard, previous_clipboard, messages, heap, current_worker,
                 workers, queue, response_area, mainpc, log, lastRead, shape,
                 settings, dicts, worker_config, config_at_start, request>>

ParamsTargetInPlace(old, fresh) == old

\* the dict object save_settings binds to an attribute of the main window: the
\* new one it has built (lines 181, 191, 202), not the one the attribute
\* referred to
ParamsTarget(old, fresh) == fresh

\* ModelDialog.save_settings, the slot of the dialog's save button.  The client
\* init_openai() creates is never used and the file save_settings() writes is
\* not read again; neither is modelled.
SaveSettings ==
  /\ mainpc = "loop"
  /\ dialog.open
  /\ LET held == ReferencedDicts(NoConfig, worker_config)
         g == FreshDict(held)
         c == FreshDict(held \cup {g})
         generation_params == ParamsTarget(settings.generation_params, g)
         custom_params == ParamsTarget(settings.custom_params, c)
         f == dialog.fields
     IN /\ settings' = Config(f.api_address_input, f.api_key_input,
                              f.system_prompt_input, f.model_name_input,
                              generation_params, custom_params)
        /\ dicts' = CollectDicts(
                      Put(Put(dicts, generation_params,
                              GenerationParams(f.temperature_input, f.max_tokens_input,
                                               f.presence_penalty_input,
                                               f.frequency_penalty_input, f.top_p_input)),
                          custom_params, ParseCustomParams(dialog.custom_params_input)),
                      settings', worker_config)
  /\ dialog' = NoDialog
  /\ UNCHANGED <<clipboard, previous_clipboard, messages, heap, current_worker,
                 workers, queue, response_area, mainpc, log, lastRead, shape,
                 worker_config, config_at_start, request>>

\* ------------------------------------------------------- worker thread steps
Event(k, s, t) == [kind |-> k, sid |-> s, text |-> t]

FinishedEventTruncated(s, acc) ==
  Event("finished", s, IF acc = <<>> THEN acc ELSE SubSeq(acc, 1, Len(acc) - 1))

\* the signal run() emits when the stream ends, line 58
FinishedEvent(s, acc) == Event("finished", s, acc)

\* the signal run() emits from its except clause, line 60
ErrorEvent(s) == Event("error", s, ErrorText)

WorkerFrame == <<clipboard, previous_clipboard, messages, current_worker,
                 response_area, mainpc, log, lastRead, shape, settings, dialog>>

\* run(), lines 35-48: create the client, build all_messages from the worker's
\* system prompt and the list the worker references, and send the request with
\* the worker's model name and the contents of its two dicts; the request can
\* raise
WorkerRequest(s) ==
  /\ workers[s].pc = "start"
  /\ \E ok \in BOOLEAN :
       /\ workers' = [workers EXCEPT ![s] =
            IF ok
            THEN Worker("stream", 0, @.atStart,
                        <<SystemMessageWith(worker_config[s].system_prompt)>>
                          \o heap[@.messages],
                        <<>>, "none")
            ELSE Left("exit", "error")]
       /\ queue' = (IF ok THEN queue ELSE Append(queue, ErrorEvent(s)))
  /\ request' = LiveRequests(
                  Put(request, s,
                      Request(worker_config[s].endpoint, worker_config[s].api_key,
                              worker_config[s].model_name, worker_config[s].system_prompt,
                              dicts[worker_config[s].generation_params],
                              dicts[worker_config[s].custom_params])),
                  workers')
  /\ config_at_start' = LiveStarts(config_at_start, workers')
  /\ heap' = Collect(heap, messages, workers')
  /\ worker_config' = LiveConfigs(worker_config, workers')
  /\ dicts' = CollectDicts(dicts, settings, worker_config')
  /\ UNCHANGED WorkerFrame

WorkerChunkPrepends(s) ==
  /\ workers[s].pc = "stream"
  /\ \E hasContent \in BOOLEAN :
       IF hasContent
       THEN /\ Len(workers[s].acc) < shape.chunks
            /\ LET content == ChunkText(Len(workers[s].acc) + 1)
               IN /\ workers' = [workers EXCEPT ![s].acc = content \o @]
                  /\ queue' = Append(queue, Event("token", s, content))
       ELSE UNCHANGED <<workers, queue>>
  /\ UNCHANGED <<heap, dicts, worker_config, config_at_start, request>>
  /\ UNCHANGED WorkerFrame

\* run(), lines 51-55: one chunk of the stream.  A chunk whose content is None
\* changes nothing; the k-th chunk with content carries ChunkText(k).
WorkerChunk(s) ==
  /\ workers[s].pc = "stream"
  /\ \E hasContent \in BOOLEAN :
       IF hasContent
       THEN /\ Len(workers[s].acc) < shape.chunks
            /\ LET content == ChunkText(Len(workers[s].acc) + 1)
               IN /\ workers' = [workers EXCEPT ![s].acc = @ \o content]
                  /\ queue' = Append(queue, Event("token", s, content))
       ELSE UNCHANGED <<workers, queue>>
  /\ UNCHANGED <<heap, dicts, worker_config, config_at_start, request>>
  /\ UNCHANGED WorkerFrame

\* run(), line 58: the stream ended
WorkerStreamEnd(s) ==
  /\ workers[s].pc = "stream"
  /\ workers' = [workers EXCEPT ![s] =
                    Worker("exit", 0, <<>>, <<>>, workers[s].acc, "finished")]
  /\ queue' = Append(queue, FinishedEvent(s, workers[s].acc))
  /\ config_at_start' = LiveStarts(config_at_start, workers')
  /\ request' = LiveRequests(request, workers')
  /\ UNCHANGED <<heap, dicts, worker_config>>
  /\ UNCHANGED WorkerFrame

WorkerStreamErrorThenFinished(s) ==
  /\ workers[s].pc = "stream"
  /\ workers' = [workers EXCEPT ![s] = Left("exit", "error")]
  /\ queue' = queue \o <<ErrorEvent(s), FinishedEvent(s, workers[s].acc)>>
  /\ config_at_start' = LiveStarts(config_at_start, workers')
  /\ request' = LiveRequests(request, workers')
  /\ UNCHANGED <<heap, dicts, worker_config>>
  /\ UNCHANGED WorkerFrame

\* run(), lines 59-60: the stream raised
WorkerStreamError(s) ==
  /\ workers[s].pc = "stream"
  /\ workers' = [workers EXCEPT ![s] = Left("exit", "error")]
  /\ queue' = Append(queue, ErrorEvent(s))
  /\ config_at_start' = LiveStarts(config_at_start, workers')
  /\ request' = LiveRequests(request, workers')
  /\ UNCHANGED <<heap, dicts, worker_config>>
  /\ UNCHANGED WorkerFrame

\* run() returns and the thread finishes
WorkerExit(s) ==
  /\ workers[s].pc = "exit"
  /\ workers' = [workers EXCEPT ![s].pc = "finished"]
  /\ UNCHANGED <<heap, queue, dicts, worker_config, config_at_start, request>>
  /\ UNCHANGED WorkerFrame

Next ==
  \/ CheckClipboard
  \/ StartWorker
  \/ ClearHistory
  \/ AppendToken
  \/ FinishResponse
  \/ DisplayError
  \/ \E s \in Sids : WorkerRequest(s)
  \/ \E s \in Sids : WorkerChunk(s)
  \/ \E s \in Sids : WorkerStreamEnd(s)
  \/ \E s \in Sids : WorkerStreamError(s)
  \/ \E s \in Sids : WorkerExit(s)

Spec == Init /\ [][Next]_vars

\* The same program while nothing is copied: every paste() finds the clipboard
\* holding what it held at startup (the read itself can still fail).
CheckClipboardSourceKept == CheckClipboard /\ clipboard' = clipboard

ClearHistorySourceKept == ClearHistory /\ clipboard' = clipboard

NextSourceKept ==
  \/ CheckClipboardSourceKept
  \/ StartWorker
  \/ ClearHistorySourceKept
  \/ AppendToken
  \/ FinishResponse
  \/ DisplayError
  \/ \E s \in Sids : WorkerRequest(s)
  \/ \E s \in Sids : WorkerChunk(s)
  \/ \E s \in Sids : WorkerStreamEnd(s)
  \/ \E s \in Sids : WorkerStreamError(s)
  \/ \E s \in Sids : WorkerExit(s)

SpecSourceKept == Init /\ [][NextSourceKept]_vars

\* The model dialog alone: opened, edited, saved or closed, while nothing is
\* copied and no session is started.
NextDialog ==
  \/ ShowModelDialog
  \/ EditModelDialog
  \/ CloseModelDialog
  \/ SaveSettings

SpecDialog == Init /\ [][NextDialog]_vars

\* The program with the model dialog in use, for one session; the custom
\* parameters typed are those of the placeholder, or none.
InitSettings == Init /\ shape.sessions = 1

EditModelDialogPlaceholder ==
  EditModelDialog /\ dialog'.custom_params_input \in {<<>>, TextPlaceholder}

NextSettings ==
  \/ CheckClipboard
  \/ StartWorker
  \/ ClearHistory
  \/ AppendToken
  \/ FinishResponse
  \/ DisplayError
  \/ ShowModelDialog
  \/ EditModelDialogPlaceholder
  \/ CloseModelDialog
  \/ SaveSettings
  \/ \E s \in Sids : WorkerRequest(s)
  \/ \E s \in Sids : WorkerChunk(s)
  \/ \E s \in Sids : WorkerStreamEnd(s)
  \/ \E s \in Sids : WorkerStreamError(s)
  \/ \E s \in Sids : WorkerExit(s)

SpecSettings == InitSettings /\ [][NextSettings]_vars

\* ------------------------------------------------------------------ claims
Running == {s \in Sids : IsRunning(workers[s])}

\* C1: single-flight.  In every reachable state at most one worker thread is
\* running, and a running worker is the one self.current_worker refers to: when
\* session N+1 has been started, session N is over.
C1_SingleFlight ==
  /\ Cardinality(Running) <= 1
  /\ \A s \in Running : s = current_worker

\* session 1 was terminated for session 2, which is running
C1_Witness ==
  /\ workers[1].pc = "killed"
  /\ IsRunning(workers[2])

\* C2 (as claimed): no token of a session is delivered to append_token once
\* terminate() has been called on that session's worker.
C2_CancelIsBarrier ==
  [][AppendToken => workers[Head(queue).sid].pc # "killed"]_vars

\* session s was superseded: a later change event was handled before any
\* outcome of s
Superseded(s) ==
  \E i \in 1..Len(log) : \E j \in (i + 1)..Len(log) :
    /\ log[i].op = "chg" /\ log[i].sid = s
    /\ log[j].op = "chg"
    /\ \A k \in (i + 1)..(j - 1) : log[k].sid # s

AssistantTurns == {History[k].turn : k \in {i \in 1..Len(History) : History[i].role = "assistant"}}

\* C3 (as claimed): a superseded session is over once the next one is started
\* and no assistant message of it is in the history.
C3_SupersededNeverAppends ==
  \A s \in Sids :
    Superseded(s) =>
      /\ mainpc = "loop" => ~IsRunning(workers[s])
      /\ s \notin AssistantTurns

\* the history is empty, no worker is running and the GUI is in its event loop
ClearedIdle ==
  /\ History = <<>>
  /\ \A s \in Sids : ~IsRunning(workers[s])
  /\ mainpc = "loop"

\* C4: every clear_history leaves the history empty and no worker running: a
\* step that does not end so is not a clear_history.
C4_ClearYieldsEmptyIdle == [][ClearedIdle' \/ ~ClearHistory]_vars

\* clear_history has terminated a streaming worker
C4_Witness ==
  /\ current_worker = 0
  /\ \E s \in Sids : workers[s].pc = "killed"
  /\ History = <<>>
  /\ log = <<>>

\* the events handled since the history was last empty are exactly n turns, each
\* a change event followed by the completed event of its own session
SerialTurns(n) ==
  /\ Len(log) = 2 * n
  /\ \A i \in 1..n :
       /\ log[2 * i - 1].op = "chg"
       /\ log[2 * i].op = "fin"
       /\ log[2 * i].sid = log[2 * i - 1].sid

\* C5: after n consecutive successful turns from an empty history the history
\* has 2n messages, user and assistant alternating, in the order of the turns.
C5_SerialTurnsAlternate ==
  \A n \in 0..MaxSessions :
    SerialTurns(n) =>
      /\ Len(History) = 2 * n
      /\ \A i \in 1..n :
           /\ History[2 * i - 1].role = "user"
           /\ History[2 * i - 1].content = log[2 * i - 1].text
           /\ History[2 * i].role = "assistant"
           /\ History[2 * i].content = log[2 * i].text
           /\ History[2 * i].turn = History[2 * i - 1].turn

C5_Witness == Len(log) = 4 /\ SerialTurns(2)

EventsOf(s) == {i \in 1..Len(queue) : queue[i].sid = s}

AppendsUser(text) ==
  /\ History' = Append(History, UserMessage(text, nextSid))
  /\ log' = Append(log, Op("chg", nextSid, text))

\* C7 (as claimed): a poll whose read is non-empty and differs from the previous,
\* non-empty read fires one change event and appends one user message.
C7_DistinctReadAppends ==
  [][(CheckClipboard /\ lastRead # <<>> /\ lastRead' # <<>> /\ lastRead' # lastRead)
       => AppendsUser(lastRead')]_vars

\* C7 (amended): the same for a read that is non-empty after trimming.
C7_DistinctNonBlankReadAppends ==
  [][(CheckClipboard /\ lastRead # <<>> /\ ~IsBlank(lastRead') /\ lastRead' # lastRead)
       => AppendsUser(lastRead')]_vars

\* the read "B" followed the read "A"; each fired its change event
C7_Witness ==
  /\ Len(log) = 2
  /\ log[1].op = "chg" /\ log[1].text = <<"A">>
  /\ log[2].op = "chg" /\ log[2].text = <<"B">>
  /\ lastRead = <<"B">>
  /\ Len(History) = 2

\* C8 (as claimed): two change events in a row, with only polls between them,
\* never carry the same text.
C8_NoRepeatedChange ==
  \A i \in 1..Len(log) : \A j \in (i + 1)..Len(log) :
    (/\ log[i].op = "chg" /\ log[j].op = "chg"
     /\ \A k \in (i + 1)..(j - 1) : log[k].op # "chg")
      => log[i].text # log[j].text

\* C9 (as claimed): a session that is over has emitted its one terminal signal,
\* and a terminated session's terminal signal is the error.
C9_OneTerminalEvent ==
  \A s \in Sids :
    /\ workers[s].pc \in {"finished", "killed"} => workers[s].term # "none"
    /\ workers[s].pc = "killed" => workers[s].term = "error"

\* C10 (as claimed): the messages a worker sends are the system message followed
\* by the history as it was when the worker was created.
C10_SnapshotByValue ==
  \A s \in Sids :
    workers[s].pc = "stream" =>
      workers[s].all_messages = <<SystemMessage>> \o workers[s].atStart

\* C11: every assistant message in the history belongs to a session whose
\* stream ended with finished, and its content is the whole text that session
\* had accumulated when its stream ended; a session that failed, or that was
\* terminated before its stream ended, has no assistant message.
C11_OnlyFullResponses ==
  /\ \A k \in 1..Len(History) :
       History[k].role = "assistant" =>
         /\ workers[History[k].turn].term = "finished"
         /\ History[k].content = workers[History[k].turn].acc
  /\ \A i \in 1..Len(queue) :
       queue[i].kind = "finished" => queue[i].text = workers[queue[i].sid].acc
  /\ \A s \in Sids : workers[s].term # "finished" => s \notin AssistantTurns

\* a non-empty response is in the history and another session was terminated
\* before its stream ended
C11_Witness ==
  /\ \E k \in 1..Len(History) :
       History[k].role = "assistant" /\ History[k].content # <<>>
  /\ \E s \in Sids : workers[s].pc = "killed" /\ workers[s].term = "none"

\* the texts of the first n chunks with content, in the order the stream
\* delivers them, concatenated
RECURSIVE Received(_)
Received(n) == IF n = 0 THEN <<>> ELSE Received(n - 1) \o ChunkText(n)

\* the texts of session s's token events in q, in queue order, concatenated
RECURSIVE TokensOf(_, _)
TokensOf(q, s) ==
  IF q = <<>> THEN <<>>
  ELSE (IF Head(q).kind = "token" /\ Head(q).sid = s THEN Head(q).text ELSE <<>>)
         \o TokensOf(Tail(q), s)

IsSuffix(a, b) ==
  /\ Len(a) <= Len(b)
  /\ SubSeq(b, Len(b) - Len(a) + 1, Len(b)) = a

\* C12: the text a worker has accumulated is the concatenation of the chunk
\* texts in the order received; its tokens still to be delivered are, in queue
\* order, the end of that text and precede its finished event, whose text is
\* the whole of it; and when a completed turn of the first session is all that
\* happened since the history was empty, the text shown, the text of the
\* finished event and the content of the assistant message are that same text.
C12_CompletedIsConcatenation ==
  /\ \A s \in Sids :
       (workers[s].pc = "stream" \/ workers[s].term = "finished") =>
         /\ workers[s].acc = Received(Len(workers[s].acc))
         /\ IsSuffix(TokensOf(queue, s), workers[s].acc)
  /\ \A i \in 1..Len(queue) :
       queue[i].kind = "finished" =>
         /\ queue[i].text = workers[queue[i].sid].acc
         /\ \A j \in (i + 1)..Len(queue) : queue[j].sid # queue[i].sid
  /\ (SerialTurns(1) /\ log[1].sid = 1) =>
       /\ log[2].text = workers[1].acc
       /\ response_area = log[2].text
       /\ History[2] = AssistantMessage(log[2].text, 1)

\* the first session streamed "a" then "b" and completed: "ab" is shown and is
\* the assistant message
C12_Witness ==
  /\ SerialTurns(1) /\ log[1].sid = 1
  /\ response_area = ChunkText(1) \o ChunkText(2)
  /\ History[2].content = ChunkText(1) \o ChunkText(2)

\* C13: every error delivered or still to be delivered was emitted by the
\* except clause of its worker's run(); a worker that terminate() stopped before
\* it emitted a terminal signal has no error event, delivered or pending.
C13_CancelIsNotAnError ==
  /\ \A i \in 1..Len(queue) :
       queue[i].kind = "error" => workers[queue[i].sid].term = "error"
  /\ \A i \in 1..Len(log) :
       log[i].op = "err" => workers[log[i].sid].term = "error"
  /\ \A s \in Sids :
       (workers[s].pc = "killed" /\ workers[s].term = "none") =>
         /\ \A i \in EventsOf(s) : queue[i].kind = "token"
         /\ \A i \in 1..Len(log) : log[i].sid = s => log[i].op = "chg"

\* a worker was terminated for the next change event while it streamed; all its
\* events have been delivered and the text shown is not an error
C13_Witness ==
  /\ \E s \in Sids :
       /\ workers[s].pc = "killed" /\ workers[s].term = "none"
       /\ EventsOf(s) = {}
       /\ \E i \in 1..Len(log) : log[i].op = "chg" /\ log[i].sid = s
  /\ queue = <<>>
  /\ mainpc = "loop"
  /\ response_area = <<>>

\* C14: a worker that has not yet sent its request still holds the values the
\* settings had when it was created, and the request a worker sent, and the
\* system message it sent with it, carry exactly those values, whatever has
\* been saved in the model dialog since.
C14_ConfigAsAtStart ==
  \A s \in Sids :
    /\ workers[s].pc = "start" =>
         ConfigValues(worker_config[s], dicts) = config_at_start[s]
    /\ workers[s].pc = "stream" =>
         request[s] = Request(config_at_start[s].endpoint, config_at_start[s].api_key,
                              config_at_start[s].model_name,
                              config_at_start[s].system_prompt,
                              config_at_start[s].generation_params,
                              config_at_start[s].custom_params)
    /\ workers[s].pc = "stream" =>
         workers[s].all_messages[1] = SystemMessageWith(config_at_start[s].system_prompt)

\* the model settings were saved, every one of them changed, while worker 1 had
\* not yet sent its request
C14_Witness ==
  /\ workers[1].pc = "start"
  /\ settings.endpoint # config_at_start[1].endpoint
  /\ settings.api_key # config_at_start[1].api_key
  /\ settings.model_name # config_at_start[1].model_name
  /\ settings.system_prompt # config_at_start[1].system_prompt
  /\ dicts[settings.generation_params] # config_at_start[1].generation_params
  /\ dicts[settings.custom_params] # config_at_start[1].custom_params

KeyTopK == <<"t", "o", "p", "_", "k">>

\* the line alone parses to an entry
WellFormedEntry(line) == ParseLine(<<>>, line) # <<>>

\* what a save parses is what the well-formed lines of the text alone parse to,
\* and has the key of each of them
SkipsMalformedEntries ==
  LET lines == SplitLines(dialog.custom_params_input)
      parsed == dicts'[settings'.custom_params]
  IN /\ parsed = ParseLines(<<>>, SelectSeq(lines, WellFormedEntry))
     /\ \A i \in 1..Len(lines) :
          WellFormedEntry(lines[i]) =>
            \E j \in 1..Len(parsed) : parsed[j].k = ParseLine(<<>>, lines[i])[1].k

\* C15 (as claimed): a save skips each malformed line by itself, and the lines
\* "not-a-valid-line" and "top_k: 20" parse to {top_k: 20}.
C15_BareEntriesParse ==
  [][SaveSettings =>
       /\ SkipsMalformedEntries
       /\ dialog.custom_params_input = TextBareEntries =>
            dicts'[settings'.custom_params] = <<[k |-> KeyTopK, v |-> PyInt(20)]>>]_vars

\* C15 (amended): a save skips each malformed line by itself, and the lines
\* "- not-a-valid-line" and "- top_k: 20" parse to {top_k: 20}; a line without
\* the leading "-" is skipped, so "not-a-valid-line" and "top_k: 20" parse to {}.
C15_DashEntriesParse ==
  [][SaveSettings =>
       /\ SkipsMalformedEntries
       /\ dialog.custom_params_input = TextDashEntries =>
            dicts'[settings'.custom_params] = <<[k |-> KeyTopK, v |-> PyInt(20)]>>
       /\ dialog.custom_params_input = TextBareEntries =>
            dicts'[settings'.custom_params] = <<>>]_vars

\* a text with a malformed line before the top_k line has been saved: the
\* custom parameters are {top_k: 20}
C15_Witness ==
  /\ ~dialog.open
  /\ dicts[settings.custom_params] = <<[k |-> KeyTopK, v |-> PyInt(20)]>>

\* C16 (as claimed): while the clipboard keeps the content it had at startup,
\* no session is ever started and no change event is handled, whether the
\* startup read succeeded or failed.
C16_NoSpuriousEvent ==
  /\ Started = {}
  /\ \A i \in 1..Len(log) : log[i].op # "chg"

\* C17 (as claimed): a poll whose read equals the snapshot, failed, is empty or
\* is whitespace-only handles no change event and leaves the snapshot, the
\* history, the current worker and the workers as they were.
C17_IdlePollChangesNothing ==
  [][(CheckClipboard /\ (lastRead' = previous_clipboard \/ IsBlank(lastRead')))
       => UNCHANGED <<previous_clipboard, messages, heap, current_worker, workers,
                      log, mainpc>>]_vars

\* C18 (as claimed): whenever a user message is appended to the history, no
\* worker is running: the previous worker has been terminated and waited for
\* before the append.
C18_TerminateBeforeAppend ==
  [][(Len(History') = Len(History) + 1 /\ History'[Len(History')].role = "user")
       => \A s \in Sids : ~IsRunning(workers'[s])]_vars

\* C19 (as claimed): clear_history leaves the snapshot equal to what the
\* clipboard holds, so that the next poll, reading that content, finds it equal
\* to the snapshot and handles no change event.
C19_ClearResyncsSnapshot ==
  [][ClearHistory => previous_clipboard' = clipboard']_vars

\* C20 (as claimed): once finish_response or display_error has handled the
\* terminal event of the current worker, self.current_worker refers to no
\* worker and no worker is running.
C20_HandleClearedOnTerminal ==
  [][((FinishResponse \/ DisplayError) /\ Head(queue).sid = current_worker)
       => /\ current_worker' = 0
          /\ \A s \in Sids : ~IsRunning(workers'[s])]_vars

\* C21: a change event whose content is empty after trimming (a read that
\* differs from the snapshot and is blank) is ignored: nothing is appended to
\* the history, the current worker is neither terminated nor replaced, the
\* displayed output is kept, and no session is started.
C21_BlankChangeIgnored ==
  [][(/\ Strip(lastRead') = <<>>
      /\ lastRead' # previous_clipboard
      /\ CheckClipboard)
       => /\ UNCHANGED <<messages, heap, response_area, log>>
          /\ UNCHANGED <<current_worker, workers, queue>>
          /\ mainpc' = "loop"]_vars

\* a blank read was handled as a change event while a session was streaming:
\* the session is still running and its output is still displayed
C21_Witness ==
  /\ log # <<>>
  /\ lastRead = <<" ">>
  /\ previous_clipboard = <<" ">>
  /\ current_worker # 0
  /\ workers[current_worker].pc = "stream"
  /\ response_area # <<>>
  /\ Len(History) = 1

\* C22 (as claimed): after clear_history the history stays empty until the
\* next change event with non-blank content is handled: while no such event
\* has been handled since the last clear, no event of an earlier session has
\* appended a message.
C22_ClearedStaysEmpty ==
  (\A i \in 1..Len(log) : log[i].op # "chg") => History = <<>>

\* C23 (as claimed): the history is a well-formed conversation: it is empty or
\* starts with a user message, no assistant message follows another, and each
\* assistant message is the response of the session that was started for the
\* user message just before it.
C23_WellFormedConversation ==
  /\ History # <<>> => History[1].role = "user"
  /\ \A i \in 1..Len(History) :
       History[i].role = "assistant" =>
         /\ i > 1
         /\ History[i - 1].role = "user"
         /\ History[i - 1].turn = History[i].turn

IsUserMessage(m) == m.role = "user"

IsChangeEvent(e) == e.op = "chg"

\* the contents of the user messages of the history, in order
UserContents ==
  LET us == SelectSeq(History, IsUserMessage)
  IN [i \in 1..Len(us) |-> us[i].content]

\* the contents of the non-blank change events handled since the history was
\* last cleared, in order
ChangeContents ==
  LET cs == SelectSeq(log, IsChangeEvent)
  IN [i \in 1..Len(cs) |-> cs[i].text]

\* C24: the user messages of the history are, in order, exactly the contents
\* of the non-blank change events handled since the last clear_history (or
\* since startup): none is dropped, duplicated or reordered.
C24_UserMessagesAreChanges == UserContents = ChangeContents

\* session 1 dates from before a clear; since the clear the change to "B" was
\* handled and is the one user message of the history
C24_Witness ==
  /\ workers[1].pc # "none"
  /\ log # <<>>
  /\ log[1] = Op("chg", 2, <<"B">>)
  /\ UserContents = <<<<"B">>>>

\* C25 (as claimed): the text the dialog shows for the custom parameters
\* round-trips through the parser: a save of the text as the dialog formatted
\* it leaves the custom-parameter map as it was.
C25_FormatParseRoundTrip ==
  [][(/\ SaveSettings
      /\ dialog.custom_params_input = FormatCustomParams(dicts[settings.custom_params]))
       => dicts'[settings'.custom_params] = dicts[settings.custom_params]]_vars

====
